---------------------------- MODULE Spec2Model ----------------------------
(***************************************************************************)
(* Guardian agent: the per-connection dialogue of Agent.HandleConnection,  *)
(* the execution-request handler with its three multiplexed streams and    *)
(* the SSH proxy handoff, and the credential service (challenge check,     *)
(* policy, signing, response).                                             *)
(*                                                                         *)
(* One connection is modelled.  The stub, the policy/UI, known_hosts, the  *)
(* signer, the multiplexer and the SSH proxy library are the environment:  *)
(* their results are drawn with \E from small sets.                        *)
(***************************************************************************)
EXTENDS Integers, Sequences, FiniteSets, TLC

(***************************************************************************)
(* Bounds of the model.                                                    *)
(***************************************************************************)
\* control packets decoded on one connection before the stub must stop
MaxMsgs == 3
\* candidate keys in one challenge
MaxKeys == 2
\* bytes of a truncated trailing packet the stream may end with
MaxTail == 2
\* streams the stub opens on the multiplexer beyond the three expected
MaxExtraStreams == 1

(***************************************************************************)
(* Program constants.                                                      *)
(***************************************************************************)
\* nonce := make([]byte, 32)
NonceLen == 32
\* control, ssh_data, transport
NumStreams == 3

(***************************************************************************)
(* Wire values.                                                            *)
(***************************************************************************)
MsgNum_AGENT_FORWARDING_NOTICE == "AGENT_FORWARDING_NOTICE"
MsgNum_EXECUTION_REQUEST == "EXECUTION_REQUEST"
MsgNum_EXECUTION_APPROVED == "EXECUTION_APPROVED"
MsgNum_EXECUTION_DENIED == "EXECUTION_DENIED"
MsgNum_CREDENTIAL_REQUEST == "CREDENTIAL_REQUEST"
MsgNum_CREDENTIAL_RESPONSE == "CREDENTIAL_RESPONSE"
MsgNum_HANDOFF_COMPLETE == "HANDOFF_COMPLETE"
MsgNum_HANDOFF_FAILED == "HANDOFF_FAILED"
MsgNum_AGENTC_EXTENSION == "AGENTC_EXTENSION"
MsgNum_AGENT_SUCCESS == "AGENT_SUCCESS"
MsgNum_AGENT_FAILURE == "AGENT_FAILURE"
\* a msg_num outside the enumeration, e.g. 0xFE
MsgNum_UNKNOWN == "UNKNOWN_0xFE"

CredentialResponse_APPROVED == "APPROVED"
CredentialResponse_DENIED == "DENIED"

AgentGuardExtensionType == "guard-extension"
OtherExtensionType == "other-extension"

\* every msg_num the stub can put on the wire
StubMsgNums ==
    { MsgNum_AGENT_FORWARDING_NOTICE, MsgNum_EXECUTION_REQUEST,
      MsgNum_CREDENTIAL_REQUEST, MsgNum_AGENTC_EXTENSION,
      MsgNum_EXECUTION_APPROVED, MsgNum_HANDOFF_COMPLETE, MsgNum_UNKNOWN }

(***************************************************************************)
(* Payloads the stub sends.                                                *)
(***************************************************************************)
Notices ==
    { [ReadableName |-> "laptop", Host |-> "10.0.0.2", Port |-> 2222],
      [ReadableName |-> "desk", Host |-> "10.0.0.3", Port |-> 22] }

ExecRequests ==
    { [User |-> "alice", Server |-> "srv.example", Command |-> "uptime"] }

\* key blobs: two well-formed keys and one blob ssh.ParsePublicKey rejects
Keys == {"kA", "kB", "junk"}

\* the sequences of distinct elements of S of length at most n
RECURSIVE SeqsUpTo(_, _)
SeqsUpTo(S, n) ==
    IF n = 0 THEN { << >> }
    ELSE LET shorter == SeqsUpTo(S, n - 1)
         IN  shorter \cup { Append(s, x) : s \in { t \in shorter : Len(t) = n - 1 },
                                           x \in S }

Range(s) == { s[i] : i \in 1..Len(s) }

\* challenges: candidate keys in the order the requester lists them
Challenges == { c \in SeqsUpTo(Keys, MaxKeys) : Cardinality(Range(c)) = Len(c) }

CredentialRequests == [Op : {"op1"}, Challenge : Challenges]

\* the known_hosts file, as the set of <<host, port, key>> it accepts: one key
\* for the first client endpoint, two for the second, and a pattern line
\* that also matches the empty endpoint
KnownHostsFiles ==
    { { <<"10.0.0.2", 2222, "kA">>, <<"10.0.0.3", 22, "kB">>, <<"10.0.0.3", 22, "kA">>,
        <<"", 0, "kA">> } }

\* the agent's signer list (getSigners)
SignerLists == { << >>, <<"s1", "s2">> }

Nonces == {"n1", "n2"}


(***************************************************************************)
(* Byte counters.  A counter is a non-negative integer kept as two limbs,  *)
(* value = hi * 2^16 + lo, so that values beyond 32 bits are representable *)
(* and the conversion to uint32 keeps its width.                           *)
(***************************************************************************)
LimbBase == 2 ^ 16

Wide(h, l) == [hi |-> h, lo |-> l]

WideLeq(a, b) == a.hi < b.hi \/ (a.hi = b.hi /\ a.lo <= b.lo)

\* a - b on Go ints (64 bit), a >= b
WideSub(a, b) ==
    IF a.lo >= b.lo
    THEN [hi |-> a.hi - b.hi, lo |-> a.lo - b.lo]
    ELSE [hi |-> a.hi - b.hi - 1, lo |-> a.lo + LimbBase - b.lo]

\* the conversion uint32(x): the low 32 bits of x
uint32(x) == [hi |-> x.hi % LimbBase, lo |-> x.lo]

\* totals the metering wrapper may report at the end of a proxy run
ByteCounts ==
    { Wide(0, 42), Wide(LimbBase - 1, LimbBase - 1), Wide(LimbBase, 0), Wide(LimbBase, 42) }

\* bytes read from the server and not yet consumed
BufferedCounts == { Wide(0, 0), Wide(0, 7) }

(***************************************************************************)
(* Events.  hist holds the events of the handling of the current control   *)
(* packet, in order, starting with the read that returned it.              *)
(***************************************************************************)
Ev(k, n, a) == [kind |-> k, num |-> n, arg |-> a]

NoArg == "-"

\* ssh.Unmarshal / proto.Unmarshal: the payload bytes either decode to the
\* value they carry or are rejected
Unmarshal(bytes) == [err |-> ~bytes.intact, val |-> bytes.val]

(***************************************************************************)
(* ReadControlPacket.  w describes what the connection holds at the read:  *)
(* a complete frame {msg_num, payload}, or no complete frame and the       *)
(* stream condition: "eos" (the peer closed after tail more bytes),        *)
(* "closed" (the local end was closed), "ioerr" (any other read error),    *)
(* "oversize" (a header announcing more than the maximum payload).         *)
(***************************************************************************)
ReadControlPacket(w) ==
    IF w.complete
    THEN [err |-> "nil", msgNum |-> w.num, payload |-> w.payload]
    ELSE [err |-> CASE w.cond = "eos" /\ w.tail = 0 -> "EOF"
                    [] w.cond = "eos" /\ w.tail > 0 -> "ErrUnexpectedEOF"
                    [] w.cond = "closed" -> "ErrClosedPipe"
                    [] w.cond = "oversize" -> "ErrTooLarge"
                    [] OTHER -> "ErrIO",
          msgNum |-> w.num, payload |-> w.payload]

StreamConds == {"eos", "closed", "ioerr", "oversize"}

NoPayload == [intact |-> FALSE, val |-> NoArg]

\* ReadErrorResult with every read error taken for a clean end of stream
ReadErrorResult_AllClean(err) == "nil"

\* what HandleConnection returns for a failed read
ReadErrorResult(err) ==
    IF err = "EOF" \/ err = "ErrClosedPipe" THEN "nil" ELSE "err_read"

\* Branch without the test of the extension type
Branch_NoTypeTest(msgNum, extensionType) ==
    CASE msgNum = MsgNum_AGENT_FORWARDING_NOTICE -> "notice"
      [] msgNum = MsgNum_EXECUTION_REQUEST -> "exec"
      [] msgNum = MsgNum_CREDENTIAL_REQUEST -> "cred"
      [] msgNum = MsgNum_AGENTC_EXTENSION -> "guard"
      [] OTHER -> "default"

\* Branch without the case of the guard extension: every AGENTC_EXTENSION falls through
Branch_NoGuardCase(msgNum, extensionType) ==
    CASE msgNum = MsgNum_AGENT_FORWARDING_NOTICE -> "notice"
      [] msgNum = MsgNum_EXECUTION_REQUEST -> "exec"
      [] msgNum = MsgNum_CREDENTIAL_REQUEST -> "cred"
      [] OTHER -> "default"

\* the switch on msgNum, with the test of the extension type
Branch(msgNum, extensionType) ==
    CASE msgNum = MsgNum_AGENT_FORWARDING_NOTICE -> "notice"
      [] msgNum = MsgNum_EXECUTION_REQUEST -> "exec"
      [] msgNum = MsgNum_CREDENTIAL_REQUEST -> "cred"
      [] msgNum = MsgNum_AGENTC_EXTENSION /\ extensionType = AgentGuardExtensionType -> "guard"
      [] OTHER -> "default"

(***************************************************************************)
(* State.                                                                  *)
(***************************************************************************)
VARIABLES
    pc,           \* position of the connection's goroutine
    ret,          \* what HandleConnection returned: "none" while running
    scope,        \* var scope Scope
    trace,        \* msg_nums of the control packets read so far
    out,          \* packets written to the connection, {num, status}
    hist,         \* events of the current packet's handling
    req,          \* credReq, while a credential request is being handled
    cred,         \* cred, while signCredential runs
    cmd,          \* the command of the execution request
    known_hosts,  \* the known_hosts file
    signers,      \* getSigners(ui)
    open,         \* the multiplexer session and streams currently open
    accepted,     \* number of streams the agent accepted
    stubOpened,   \* number of streams the stub opened
    runErr,       \* err of proxySSH once the proxy was built: nil, then <-done
    proxyRet,     \* what proxySSH returned
    bytesRead,    \* meteredConnToServer.BytesRead()
    buffered,     \* proxy.BufferedFromServer()
    lastNotice,   \* the notice most recently unmarshalled on this connection
    peerScope     \* var scope Scope of a second, concurrent HandleConnection

vars == << pc, ret, scope, trace, out, hist, req, cred, cmd, known_hosts,
           signers, open, accepted, stubOpened, runErr, proxyRet,
           bytesRead, buffered, lastNotice, peerScope >>

credVars == << req, cred >>
execVars == << cmd, open, accepted, stubOpened, runErr, proxyRet, bytesRead, buffered >>
envVars == << known_hosts, signers >>

EmptyScope ==
    [ClientName |-> "", ClientHostname |-> "", ClientPort |-> 0,
     ServiceHostname |-> "", ServiceUsername |-> ""]

NoNonce == [bytes |-> "", len |-> 0]
NoSignature == [signer |-> "", over |-> << >>]

EmptyCredential ==
    [Op |-> "", Challenge |-> << >>, SignerNonce |-> NoNonce, SignatureKey |-> "",
     Signature |-> NoSignature, SignatureFormat |-> ""]

EmptyRequest == [Op |-> "", Challenge |-> << >>]

\* no AgentForwardingNoticeMsg has been unmarshalled yet
NoNotice == [ReadableName |-> "", Host |-> "", Port |-> 0]

Init ==
    /\ pc = "start"
    /\ ret = "none"
    /\ scope = EmptyScope
    /\ trace = << >>
    /\ out = << >>
    /\ hist = << >>
    /\ req = EmptyRequest
    /\ cred = EmptyCredential
    /\ cmd = ""
    /\ known_hosts \in KnownHostsFiles
    /\ signers \in SignerLists
    /\ open = {}
    /\ accepted = 0
    /\ stubOpened = 0
    /\ runErr = "none"
    /\ proxyRet = "none"
    /\ bytesRead = Wide(0, 0)
    /\ buffered = Wide(0, 0)
    /\ lastNotice = NoNotice
    /\ peerScope = EmptyScope

\* WriteControlPacket(conn, num, ...): the packet as the connection log keeps it
Pkt(num, status) == [num |-> num, status |-> status]

(***************************************************************************)
(* HandleConnection.                                                       *)
(***************************************************************************)
\* agent.policy.UI.Inform("New incoming connection"); var scope Scope
HC_Start ==
    /\ pc = "start"
    /\ pc' = "read"
    /\ hist' = Append(hist, Ev("inform", "New incoming connection", NoArg))
    /\ UNCHANGED << ret, scope, trace, out, credVars, execVars, envVars, lastNotice, peerScope >>

\* ReadControlPacket fails: clean return on EOF / closed pipe, error otherwise
HC_ReadError ==
    /\ pc = "read"
    /\ \E c \in StreamConds, t \in 0..MaxTail :
         LET r == ReadControlPacket([complete |-> FALSE, num |-> "", payload |-> NoPayload,
                                     cond |-> c, tail |-> IF c = "eos" THEN t ELSE 0])
         IN  /\ (c # "eos" => t = 0)
             /\ hist' = << Ev("read", r.err, IF c = "eos" THEN t ELSE 0) >>
             /\ ret' = ReadErrorResult(r.err)
    /\ pc' = "done"
    /\ UNCHANGED << scope, trace, out, credVars, execVars, envVars, lastNotice, peerScope >>

\* the fields of scope an AGENT_FORWARDING_NOTICE sets
NoticeScope(sc, notice) ==
    [sc EXCEPT !.ClientName = notice.ReadableName,
               !.ClientHostname = notice.Host,
               !.ClientPort = notice.Port]

\* case MsgNum_AGENT_FORWARDING_NOTICE
HC_Notice ==
    /\ pc = "read"
    /\ Len(trace) < MaxMsgs
    /\ \E n \in Notices, ok \in BOOLEAN :
         LET r == ReadControlPacket([complete |-> TRUE, num |-> MsgNum_AGENT_FORWARDING_NOTICE,
                                     payload |-> [intact |-> ok, val |-> n],
                                     cond |-> "open", tail |-> 0])
             u == Unmarshal(r.payload)
         IN  /\ Branch(r.msgNum, "") = "notice"
             /\ trace' = Append(trace, r.msgNum)
             /\ hist' = << Ev("read", r.msgNum, r.payload) >>
             /\ IF u.err
                THEN /\ ret' = "err_unmarshal"
                     /\ pc' = "done"
                     /\ scope' = scope
                     /\ lastNotice' = lastNotice
                ELSE /\ scope' = NoticeScope(scope, u.val)
                     /\ lastNotice' = u.val
                     /\ UNCHANGED << ret, pc >>
    /\ UNCHANGED << out, credVars, execVars, envVars, peerScope >>

\* the fields of scope an EXECUTION_REQUEST sets
ExecScope(sc, execReq) ==
    [sc EXCEPT !.ServiceHostname = execReq.Server,
               !.ServiceUsername = execReq.User]

\* case MsgNum_EXECUTION_REQUEST: return agent.handleExecutionRequest(...)
HC_ExecutionRequest ==
    /\ pc = "read"
    /\ Len(trace) < MaxMsgs
    /\ \E e \in ExecRequests, ok \in BOOLEAN :
         LET r == ReadControlPacket([complete |-> TRUE, num |-> MsgNum_EXECUTION_REQUEST,
                                     payload |-> [intact |-> ok, val |-> e],
                                     cond |-> "open", tail |-> 0])
             u == Unmarshal(r.payload)
         IN  /\ Branch(r.msgNum, "") = "exec"
             /\ trace' = Append(trace, r.msgNum)
             /\ hist' = << Ev("read", r.msgNum, r.payload) >>
             /\ IF u.err
                THEN /\ ret' = "err_unmarshal"
                     /\ pc' = "done"
                     /\ UNCHANGED << scope, cmd >>
                ELSE /\ scope' = ExecScope(scope, u.val)
                     /\ cmd' = u.val.Command
                     /\ pc' = "exec_policy"
                     /\ ret' = ret
    /\ UNCHANGED << out, credVars, open, accepted, stubOpened, runErr, proxyRet,
                    bytesRead, buffered, envVars, lastNotice, peerScope >>

\* case MsgNum_CREDENTIAL_REQUEST: up to the call of handleCredentialRequest
HC_CredentialRequest ==
    /\ pc = "read"
    /\ Len(trace) < MaxMsgs
    /\ \E q \in CredentialRequests, ok \in BOOLEAN :
         LET r == ReadControlPacket([complete |-> TRUE, num |-> MsgNum_CREDENTIAL_REQUEST,
                                     payload |-> [intact |-> ok, val |-> q],
                                     cond |-> "open", tail |-> 0])
             u == Unmarshal(r.payload)
         IN  /\ Branch(r.msgNum, "") = "cred"
             /\ trace' = Append(trace, r.msgNum)
             /\ hist' = << Ev("read", r.msgNum, r.payload) >>
             /\ IF u.err
                THEN /\ ret' = "err_unmarshal"
                     /\ pc' = "done"
                     /\ req' = req
                ELSE /\ req' = u.val
                     /\ pc' = "cred_check"
                     /\ ret' = ret
    /\ cred' = EmptyCredential
    /\ UNCHANGED << scope, out, execVars, envVars, lastNotice, peerScope >>

ExtensionTypes == { AgentGuardExtensionType, OtherExtensionType, "" }

\* case MsgNum_AGENTC_EXTENSION with the guard extension type: AGENT_SUCCESS, continue.
\* The error of ssh.Unmarshal is dropped: the type is whatever was decoded.
HC_GuardExtension ==
    /\ pc = "read"
    /\ Len(trace) < MaxMsgs
    /\ \E x \in ExtensionTypes, ok \in BOOLEAN :
         LET r == ReadControlPacket([complete |-> TRUE, num |-> MsgNum_AGENTC_EXTENSION,
                                     payload |-> [intact |-> ok, val |-> x],
                                     cond |-> "open", tail |-> 0])
             queryExtension == Unmarshal(r.payload).val
         IN  /\ Branch(r.msgNum, queryExtension) = "guard"
             /\ trace' = Append(trace, r.msgNum)
             /\ hist' = << Ev("read", r.msgNum, r.payload),
                           Ev("write", MsgNum_AGENT_SUCCESS, NoArg) >>
             /\ out' = Append(out, Pkt(MsgNum_AGENT_SUCCESS, ""))
    /\ UNCHANGED << pc, ret, scope, credVars, execVars, envVars, lastNotice, peerScope >>

\* default, and AGENTC_EXTENSION falling through: AGENT_FAILURE, return an error
HC_Default ==
    /\ pc = "read"
    /\ Len(trace) < MaxMsgs
    /\ \E m \in StubMsgNums, x \in ExtensionTypes, ok \in BOOLEAN :
         LET r == ReadControlPacket([complete |-> TRUE, num |-> m,
                                     payload |-> [intact |-> ok, val |-> x],
                                     cond |-> "open", tail |-> 0])
             queryExtension == IF r.msgNum = MsgNum_AGENTC_EXTENSION
                               THEN Unmarshal(r.payload).val ELSE ""
         IN  /\ (m # MsgNum_AGENTC_EXTENSION => x = "" /\ ok)
             /\ Branch(r.msgNum, queryExtension) = "default"
             /\ trace' = Append(trace, r.msgNum)
             /\ hist' = << Ev("read", r.msgNum, r.payload),
                           Ev("write", MsgNum_AGENT_FAILURE, NoArg) >>
             /\ out' = Append(out, Pkt(MsgNum_AGENT_FAILURE, ""))
             /\ ret' = "err_unrecognized"
             /\ pc' = "done"
    /\ UNCHANGED << scope, credVars, execVars, envVars, lastNotice, peerScope >>

(***************************************************************************)
(* Credential service.                                                     *)
(***************************************************************************)
\* ssh.ParsePublicKey(pkBytes): err == nil
ParsePublicKey(pkBytes) == pkBytes # "junk"

\* net.JoinHostPort(host, strconv.FormatUint(uint64(port), 10))
JoinHostPort(host, port) == << host, port >>

\* kh(address, &net.IPAddr{}, pk) == nil: known_hosts has the key for the address
kh(address, pk) == << address[1], address[2], pk >> \in known_hosts

\* the test of one candidate key in the loop of checkChallenge
KeyAccepted(sc, pkBytes) ==
    /\ ParsePublicKey(pkBytes)
    /\ kh(JoinHostPort(sc.ClientHostname, sc.ClientPort), pkBytes)

\* scanKeys without the return at the first match: the last accepted key wins
RECURSIVE scanKeys_Last(_, _, _)
scanKeys_Last(sc, keys, i) ==
    IF i > Len(keys) THEN 0
    ELSE LET later == scanKeys_Last(sc, keys, i + 1)
         IN  IF later # 0 THEN later
             ELSE IF KeyAccepted(sc, keys[i]) THEN i ELSE 0

\* the loop of checkChallenge from index i: the index of the key it stops at, 0 if none
RECURSIVE scanKeys(_, _, _)
scanKeys(sc, keys, i) ==
    IF i > Len(keys) THEN 0
    ELSE IF KeyAccepted(sc, keys[i]) THEN i
    ELSE scanKeys(sc, keys, i + 1)

\* checkChallenge(scope, challenge): the error and the challenge as it leaves it.
\* loaded: knownhosts.New succeeded
checkChallenge(sc, challenge, loaded) ==
    IF ~loaded
    THEN [err |-> "Failed to get known hosts", challenge |-> challenge]
    ELSE LET i == scanKeys(sc, challenge, 1)
         IN  IF i = 0
             THEN [err |-> "Could not verify server public key against known_hosts",
                   challenge |-> challenge]
             ELSE [err |-> "nil", challenge |-> << challenge[i] >>]

\* signer.PublicKey().Marshal()
PublicKey(signer) == "pub-" \o signer

\* proto.Marshal(cred): the set fields in field order, unset fields omitted
Marshal(c) ==
    (IF c.Op # "" THEN << << "op", c.Op >> >> ELSE << >>)
    \o (IF c.Challenge # << >> THEN << << "challenge", c.Challenge >> >> ELSE << >>)
    \o (IF c.SignerNonce # NoNonce THEN << << "signer_nonce", c.SignerNonce >> >> ELSE << >>)
    \o (IF c.SignatureKey # "" THEN << << "signature_key", c.SignatureKey >> >> ELSE << >>)
    \o (IF c.Signature # NoSignature THEN << << "signature", c.Signature >> >> ELSE << >>)
    \o (IF c.SignatureFormat # "" THEN << << "signature_format", c.SignatureFormat >> >> ELSE << >>)

\* signer.Sign(rand.Reader, bytes_to_sign)
Sign(signer, bytes) ==
    [Blob |-> [signer |-> signer, over |-> bytes],
     Format |-> IF signer = "s1" THEN "ssh-ed25519" ELSE "ssh-rsa"]

\* what can fail inside signCredential: the RNG read, signer.Sign
SignFailures == {"none", "rand", "sign"}

\* signCredential marshalling cred before the nonce and the key are set
signCredential_SignsEarly(c, signerList, nonce, fail) ==
    LET signer == signerList[1]
        c1 == [c EXCEPT !.SignerNonce = nonce, !.SignatureKey = PublicKey(signer)]
        bytes_to_sign == Marshal(c)
        sig == Sign(signer, bytes_to_sign)
    IN  CASE fail = "rand" -> [err |-> "rand", cred |-> c, signed |-> << >>]
          [] fail = "sign" -> [err |-> "sign", cred |-> c1, signed |-> bytes_to_sign]
          [] OTHER -> [err |-> "nil",
                       cred |-> [c1 EXCEPT !.Signature = sig.Blob,
                                           !.SignatureFormat = sig.Format],
                       signed |-> bytes_to_sign]

\* signCredential(cred) with a non-empty signer list: the error and cred as it leaves it
signCredential(c, signerList, nonce, fail) ==
    LET signer == signerList[1]
        c1 == [c EXCEPT !.SignerNonce = nonce, !.SignatureKey = PublicKey(signer)]
        bytes_to_sign == Marshal(c1)
        sig == Sign(signer, bytes_to_sign)
    IN  CASE fail = "rand" -> [err |-> "rand", cred |-> c, signed |-> << >>]
          [] fail = "sign" -> [err |-> "sign", cred |-> c1, signed |-> bytes_to_sign]
          [] OTHER -> [err |-> "nil",
                       cred |-> [c1 EXCEPT !.Signature = sig.Blob,
                                           !.SignatureFormat = sig.Format],
                       signed |-> bytes_to_sign]

\* results of WriteControlPacket
WriteOutcomes == {"nil", "err_write"}

CredentialResponse(status, c) == [Status |-> status, Credential |-> c]

\* writeCredentialResponse(conn, resp): proto.Marshal of a response built from
\* decoded and freshly set fields does not fail; the write may
WriteResponseEvent(resp, w) == Ev("write", MsgNum_CREDENTIAL_RESPONSE, [resp |-> resp, err |-> w])

\* InformOnError with the error of the handler swallowed
InformOnError_Silent(err) == << >>

\* InformOnError with the nil test dropped
InformOnError_Always(err) == << Ev("inform", "Error handling", err) >>

\* HandleConnection after handleCredentialRequest returned err
InformOnError(err) ==
    IF err # "nil" THEN << Ev("inform", "Error handling", err) >> ELSE << >>

\* handleCredentialRequest: checkChallenge, and the DENIED reply when it fails
CheckChallengeStep ==
    /\ pc = "cred_check"
    /\ \E loaded \in BOOLEAN, w \in WriteOutcomes :
         LET r == checkChallenge(scope, req.Challenge, loaded)
             resp == CredentialResponse(CredentialResponse_DENIED, EmptyCredential)
             err == "request BLOCKED due to invalid challenge"
         IN  IF r.err # "nil"
             THEN /\ hist' = hist \o << Ev("call", "checkChallenge", r),
                                        WriteResponseEvent(resp, w) >>
                                  \o InformOnError(err)
                  /\ out' = Append(out, Pkt(MsgNum_CREDENTIAL_RESPONSE, resp.Status))
                  /\ req' = EmptyRequest
                  /\ pc' = "read"
             ELSE /\ w = "nil"
                  /\ hist' = Append(hist, Ev("call", "checkChallenge", r))
                  /\ out' = out
                  /\ req' = [req EXCEPT !.Challenge = r.challenge]
                  /\ pc' = "cred_policy"
    /\ UNCHANGED << ret, scope, trace, cred, execVars, envVars, lastNotice, peerScope >>

PolicyVerdicts == {"nil", "denied"}

\* CredentialDenied with the verdict of the policy dropped
CredentialDenied_Never(verdict) == FALSE

\* err != nil after policy.RequestCredentialApproval
CredentialDenied(verdict) == verdict # "nil"

\* handleCredentialRequest: policy.RequestCredentialApproval, and the DENIED reply
CredPolicyStep ==
    /\ pc = "cred_policy"
    /\ \E verdict \in PolicyVerdicts, w \in WriteOutcomes :
         LET resp == CredentialResponse(CredentialResponse_DENIED, EmptyCredential)
         IN  IF CredentialDenied(verdict)
             THEN /\ hist' = hist \o << Ev("call", "RequestCredentialApproval", verdict),
                                        WriteResponseEvent(resp, w) >>
                                  \o InformOnError(w)
                  /\ out' = Append(out, Pkt(MsgNum_CREDENTIAL_RESPONSE, resp.Status))
                  /\ req' = EmptyRequest
                  /\ pc' = "read"
             ELSE /\ w = "nil"
                  /\ hist' = Append(hist, Ev("call", "RequestCredentialApproval", verdict))
                  /\ out' = out
                  /\ req' = req
                  /\ pc' = "cred_sign"
    /\ UNCHANGED << ret, scope, trace, cred, execVars, envVars, lastNotice, peerScope >>

\* cred := &Credential{Op: req.GetOp(), Challenge: req.GetChallenge()}
NewCredential(r) == [EmptyCredential EXCEPT !.Op = r.Op, !.Challenge = r.Challenge]

\* handleCredentialRequest: the credential, signCredential, and the reply.
\* signers[0] on an empty signer list is an index out of range: the goroutine panics.
CredSignStep ==
    /\ pc = "cred_sign"
    /\ IF signers = << >>
       THEN /\ cred' = NewCredential(req)
            /\ req' = req
            /\ hist' = Append(hist, Ev("call", "signCredential", "panic"))
            /\ out' = out
            /\ ret' = "panic"
            /\ pc' = "panic"
       ELSE \E n \in Nonces, fail \in SignFailures, w \in WriteOutcomes :
              LET r == signCredential(NewCredential(req), signers,
                                      [bytes |-> n, len |-> NonceLen], fail)
                  denied == CredentialResponse(CredentialResponse_DENIED, EmptyCredential)
                  approved == CredentialResponse(CredentialResponse_APPROVED, r.cred)
              IN  /\ cred' = EmptyCredential
                  /\ req' = EmptyRequest
                  /\ IF r.err # "nil"
                     THEN /\ hist' = hist \o << Ev("call", "signCredential", r.err),
                                                WriteResponseEvent(denied, w) >>
                                          \o InformOnError("Failed to sign credential")
                          /\ out' = Append(out, Pkt(MsgNum_CREDENTIAL_RESPONSE, denied.Status))
                     ELSE /\ hist' = hist \o << Ev("call", "signCredential", r.err),
                                                Ev("signed", "bytes_to_sign", r.signed),
                                                WriteResponseEvent(approved, w) >>
                                          \o InformOnError(w)
                          /\ out' = Append(out, Pkt(MsgNum_CREDENTIAL_RESPONSE, approved.Status))
                  /\ ret' = ret
                  /\ pc' = "read"
    /\ UNCHANGED << scope, trace, execVars, envVars, lastNotice, peerScope >>

(***************************************************************************)
(* Execution request handler and SSH proxy.                                *)
(***************************************************************************)
\* the variables control, sshData, transport, in accept order
StreamName(i) == << "control", "sshData", "transport" >>[i]

\* Deferred without defer ymux.Close(): only the accepted streams are closed
Deferred_StreamsOnly(n) == [i \in 1..n |-> Ev("close", StreamName(n + 1 - i), NoArg)]

\* the deferred Close calls of handleExecutionRequest with n streams accepted:
\* last deferred first, the multiplexer last
RECURSIVE Deferred(_)
Deferred(n) ==
    IF n = 0 THEN << Ev("close", "ymux", NoArg) >>
    ELSE << Ev("close", StreamName(n), NoArg) >> \o Deferred(n - 1)

\* what a sequence of Close calls closes
Closed(events) ==
    { events[i].num : i \in { j \in DOMAIN events : events[j].kind = "close" } }

\* ApprovalReply with the verdict of the policy dropped
ApprovalReply_AlwaysApproved(verdict) == MsgNum_EXECUTION_APPROVED

\* what handleExecutionRequest does with the verdict of policy.RequestApproval
ApprovalReply(verdict) ==
    IF verdict # "nil" THEN MsgNum_EXECUTION_DENIED ELSE MsgNum_EXECUTION_APPROVED

\* handleExecutionRequest: RequestApproval, the reply, yamux.Server
ExecPolicyStep ==
    /\ pc = "exec_policy"
    /\ \E verdict \in PolicyVerdicts, muxOk \in BOOLEAN :
         LET reply == ApprovalReply(verdict)
         IN  IF reply = MsgNum_EXECUTION_DENIED
             THEN /\ muxOk
                  /\ hist' = hist \o << Ev("call", "RequestApproval", verdict),
                                        Ev("write", reply, [Reason |-> verdict]) >>
                  /\ out' = Append(out, Pkt(reply, verdict))
                  /\ ret' = "nil"
                  /\ pc' = "done"
                  /\ open' = open
             ELSE /\ hist' = hist \o << Ev("call", "RequestApproval", verdict),
                                        Ev("call", "NewFilter", cmd),
                                        Ev("write", reply, NoArg),
                                        Ev("call", "yamux.Server",
                                           IF muxOk THEN "nil" ELSE "err") >>
                  /\ out' = Append(out, Pkt(reply, ""))
                  /\ IF muxOk
                     THEN /\ open' = {"ymux"}
                          /\ pc' = "accept"
                          /\ ret' = ret
                     ELSE /\ open' = open
                          /\ pc' = "done"
                          /\ ret' = "err_ymux"
    /\ UNCHANGED << scope, trace, credVars, cmd, accepted, stubOpened, runErr, proxyRet,
                    bytesRead, buffered, envVars, lastNotice, peerScope >>

\* the stub opens one more stream on the multiplexer
StubOpenStream ==
    /\ pc \in {"accept", "proxy_setup", "proxy_run"}
    /\ "ymux" \in open
    /\ stubOpened < NumStreams + MaxExtraStreams
    /\ stubOpened' = stubOpened + 1
    /\ UNCHANGED << pc, ret, scope, trace, out, hist, credVars, cmd, open, accepted, runErr,
                    proxyRet, bytesRead, buffered, envVars, lastNotice, peerScope >>

\* ymux.Accept(): the next stream the stub opened is bound to the next of
\* control, sshData, transport; after the third the proxy is called
AcceptStream ==
    /\ pc = "accept"
    /\ accepted < stubOpened
    /\ accepted' = accepted + 1
    /\ open' = open \cup { StreamName(accepted + 1) }
    /\ hist' = Append(hist, Ev("accept", StreamName(accepted + 1), accepted + 1))
    /\ pc' = IF accepted + 1 = NumStreams THEN "proxy_setup" ELSE "accept"
    /\ UNCHANGED << ret, scope, trace, out, credVars, cmd, stubOpened, runErr, proxyRet,
                    bytesRead, buffered, envVars, lastNotice, peerScope >>

\* ymux.Accept() fails: the handler returns the error, the deferred closes run
AcceptFails ==
    /\ pc = "accept"
    /\ hist' = hist \o << Ev("accept", StreamName(accepted + 1), 0) >> \o Deferred(accepted)
    /\ open' = open \ Closed(Deferred(accepted))
    /\ ret' = "err_accept"
    /\ pc' = "done"
    /\ UNCHANGED << scope, trace, out, credVars, cmd, accepted, stubOpened, runErr, proxyRet,
                    bytesRead, buffered, envVars, lastNotice, peerScope >>

\* proxySSH up to proxy.Run(): OrderHostKeyAlgs and NewProxyConn may fail,
\* and then proxySSH returns the error at once.  The event of the call keeps
\* the number of streams the stub had opened by then.
ProxySetup ==
    /\ pc = "proxy_setup"
    /\ \E algsOk \in BOOLEAN, newOk \in BOOLEAN :
         /\ (~algsOk => newOk)
         /\ IF ~algsOk
            THEN /\ hist' = hist \o << Ev("call", "proxySSH", stubOpened),
                                       Ev("call", "OrderHostKeyAlgs", "err") >>
                 /\ proxyRet' = "Failed to extract host key algorithms from known_hosts"
                 /\ runErr' = runErr
                 /\ pc' = "exec_close"
            ELSE IF ~newOk
            THEN /\ hist' = hist \o << Ev("call", "proxySSH", stubOpened),
                                       Ev("call", "OrderHostKeyAlgs", "nil"),
                                       Ev("call", "NewProxyConn", "err") >>
                 /\ proxyRet' = "NewProxyConn failed"
                 /\ runErr' = runErr
                 /\ pc' = "exec_close"
            ELSE /\ hist' = hist \o << Ev("call", "proxySSH", stubOpened),
                                       Ev("call", "OrderHostKeyAlgs", "nil"),
                                       Ev("call", "NewProxyConn", "nil"),
                                       Ev("call", "proxy.Run", NoArg) >>
                 /\ proxyRet' = proxyRet
                 /\ runErr' = "nil"
                 /\ pc' = "proxy_run"
    /\ UNCHANGED << ret, scope, trace, out, credVars, cmd, open, accepted, stubOpened,
                    bytesRead, buffered, envVars, lastNotice, peerScope >>

RunErrors == {"nil", "ssh: handshake failed"}

\* err = <-done: the proxy run finished, with the counters as they then stand
ProxyRun ==
    /\ pc = "proxy_run"
    /\ \E e \in RunErrors, br \in ByteCounts, bf \in BufferedCounts :
         /\ WideLeq(bf, br)
         /\ runErr' = e
         /\ bytesRead' = br
         /\ buffered' = bf
         /\ hist' = Append(hist, Ev("done", e, [bytesRead |-> br, buffered |-> bf]))
    /\ pc' = "proxy_handoff"
    /\ UNCHANGED << ret, scope, trace, out, credVars, cmd, open, accepted, stubOpened,
                    proxyRet, envVars, lastNotice, peerScope >>

\* HandoffMsgNum with the error of the run dropped
HandoffMsgNum_AlwaysComplete(err) == MsgNum_HANDOFF_COMPLETE

\* the message proxySSH builds from err
HandoffMsgNum(err) ==
    IF err # "nil" THEN MsgNum_HANDOFF_FAILED ELSE MsgNum_HANDOFF_COMPLETE

\* NextTransportByte: uint32(meteredConnToServer.BytesRead() - proxy.BufferedFromServer())
NextTransportByte(br, bf) == uint32(WideSub(br, bf))

HandoffMessage(err, br, bf) ==
    IF HandoffMsgNum(err) = MsgNum_HANDOFF_FAILED
    THEN [num |-> MsgNum_HANDOFF_FAILED, Msg |-> err, NextTransportByte |-> Wide(0, 0)]
    ELSE [num |-> MsgNum_HANDOFF_COMPLETE, Msg |-> "",
          NextTransportByte |-> NextTransportByte(br, bf)]

\* AfterDone without the receive from done: the code after proxy.Run() runs at once
AfterDone_NoWait(p) == p \in {"proxy_run", "proxy_handoff"}

\* err = <-done has returned: the goroutine is past the receive
AfterDone(p) == p = "proxy_handoff"

\* return WriteControlPacket(control, msgNum, packet)
ProxyHandoff ==
    /\ AfterDone(pc)
    /\ \E w \in WriteOutcomes :
         LET msg == HandoffMessage(runErr, bytesRead, buffered)
         IN  /\ hist' = Append(hist, Ev("cwrite", msg.num, msg))
             /\ proxyRet' = w
    /\ pc' = "exec_close"
    /\ UNCHANGED << ret, scope, trace, out, credVars, cmd, open, accepted, stubOpened,
                    runErr, bytesRead, buffered, envVars, lastNotice, peerScope >>

\* what handleExecutionRequest returns after proxySSH returned err
ExecResult(err) == IF err # "nil" THEN "err_proxy" ELSE "nil"

\* handleExecutionRequest after proxySSH: the three Close calls, the return,
\* the deferred closes
ExecClose ==
    /\ pc = "exec_close"
    /\ hist' = hist \o << Ev("close", "transport", NoArg), Ev("close", "sshData", NoArg),
                          Ev("close", "control", NoArg) >>
                    \o Deferred(accepted)
    /\ open' = open \ Closed(<< Ev("close", "transport", NoArg), Ev("close", "sshData", NoArg),
                                Ev("close", "control", NoArg) >> \o Deferred(accepted))
    /\ ret' = ExecResult(proxyRet)
    /\ pc' = "done"
    /\ UNCHANGED << scope, trace, out, credVars, cmd, accepted, stubOpened, runErr,
                    proxyRet, bytesRead, buffered, envVars, lastNotice, peerScope >>

(***************************************************************************)
(* Specification.                                                          *)
(***************************************************************************)
Next ==
    \/ HC_Start
    \/ HC_ReadError
    \/ HC_Notice
    \/ HC_ExecutionRequest
    \/ HC_CredentialRequest
    \/ HC_GuardExtension
    \/ HC_Default
    \/ CheckChallengeStep
    \/ CredPolicyStep
    \/ CredSignStep
    \/ ExecPolicyStep
    \/ StubOpenStream
    \/ AcceptStream
    \/ AcceptFails
    \/ ProxySetup
    \/ ProxyRun
    \/ ProxyHandoff
    \/ ExecClose

Spec == Init /\ [][Next]_vars

(***************************************************************************)
(* A second connection, served by its own HandleConnection goroutine: the  *)
(* notices it receives are written to its own local variable scope.        *)
(***************************************************************************)
\* Peer_Notice with scope a field shared by the goroutines instead of a local
Peer_Notice_SharedScope ==
    /\ \E n \in Notices : scope' = NoticeScope(scope, n)
    /\ UNCHANGED << pc, ret, trace, out, hist, credVars, execVars, envVars, lastNotice,
                    peerScope >>

\* case MsgNum_AGENT_FORWARDING_NOTICE on the other connection
Peer_Notice ==
    /\ \E n \in Notices : peerScope' = NoticeScope(peerScope, n)
    /\ UNCHANGED << pc, ret, scope, trace, out, hist, credVars, execVars, envVars, lastNotice >>

NextConns ==
    \/ Next
    \/ Peer_Notice

SpecConns == Init /\ [][NextConns]_vars

(***************************************************************************)
(* Vocabulary of the properties.                                           *)
(***************************************************************************)
\* indices of the events of hist of one kind and name
At(k, n) == { i \in DOMAIN hist : hist[i].kind = k /\ hist[i].num = n }

\* the packets written on the control stream
Ctl == SelectSeq(hist, LAMBDA e : e.kind = "cwrite")

\* hist starts with the read of a complete control packet
PacketRead == hist # << >> /\ hist[1].kind = "read" /\ hist[1].num \in StubMsgNums

\* the state of the section 4.1 machine
Executing ==
    pc \in {"exec_policy", "accept", "proxy_setup", "proxy_run", "proxy_handoff", "exec_close"}

MachineState ==
    CASE pc \in {"done", "panic"} -> "S_closed"
      [] Executing -> "S_exec"
      [] \E i \in DOMAIN trace : trace[i] = MsgNum_AGENT_FORWARDING_NOTICE -> "S1"
      [] OTHER -> "S0"

\* t is a path of the section 4.1 machine that ends without error
IsPath(t) ==
    \A i \in DOMAIN t :
      /\ t[i] \in { MsgNum_AGENT_FORWARDING_NOTICE, MsgNum_AGENTC_EXTENSION,
                    MsgNum_CREDENTIAL_REQUEST, MsgNum_EXECUTION_REQUEST }
      /\ t[i] = MsgNum_CREDENTIAL_REQUEST =>
           \E j \in 1..(i - 1) : t[j] = MsgNum_AGENT_FORWARDING_NOTICE
      /\ t[i] = MsgNum_EXECUTION_REQUEST => i = Len(t)

(***************************************************************************)
(* C1.  Sequence discipline: every sequence of control messages that       *)
(* HandleConnection processes and then returns from without an error is a  *)
(* path of the section 4.1 machine: notices and guard extension queries    *)
(* from S0 and S1, CREDENTIAL_REQUEST only after a notice, and             *)
(* EXECUTION_REQUEST last.                                                 *)
(***************************************************************************)
C1_SequenceDiscipline == ret = "nil" => IsPath(trace)

(***************************************************************************)
(* C2.  A control packet that is none of AGENT_FORWARDING_NOTICE,          *)
(* EXECUTION_REQUEST, CREDENTIAL_REQUEST and a guard-type AGENTC_EXTENSION *)
(* makes the agent issue exactly one write, of AGENT_FAILURE, and return   *)
(* the unrecognized-message error; it is the last packet of the            *)
(* connection that is read.                                                *)
(***************************************************************************)
Unrecognized(e) ==
    \/ e.num \notin { MsgNum_AGENT_FORWARDING_NOTICE, MsgNum_EXECUTION_REQUEST,
                      MsgNum_CREDENTIAL_REQUEST, MsgNum_AGENTC_EXTENSION }
    \/ (e.num = MsgNum_AGENTC_EXTENSION /\ e.arg.val # AgentGuardExtensionType)

C2_UnknownMessageFails ==
    PacketRead /\ Unrecognized(hist[1]) =>
      /\ hist = << hist[1], Ev("write", MsgNum_AGENT_FAILURE, NoArg) >>
      /\ out # << >> /\ out[Len(out)] = Pkt(MsgNum_AGENT_FAILURE, "")
      /\ Cardinality({ i \in DOMAIN out : out[i].num = MsgNum_AGENT_FAILURE }) = 1
      /\ ret = "err_unrecognized"
      /\ pc = "done"
      /\ trace[Len(trace)] = hist[1].num

\* the case in S1: a notice was processed, then an extension of another type
C2_Witness ==
    /\ PacketRead /\ Unrecognized(hist[1])
    /\ hist[1].num = MsgNum_AGENTC_EXTENSION
    /\ trace[1] = MsgNum_AGENT_FORWARDING_NOTICE
    /\ pc = "done"

(***************************************************************************)
(* C3.  At most one handoff message is written on control;                 *)
(* HANDOFF_COMPLETE only when the proxy run ended without error,           *)
(* HANDOFF_FAILED only when it ended with one; once it is written nothing  *)
(* more is written on control and the proxy is not entered again.          *)
(***************************************************************************)
HandoffInv ==
    /\ Len(Ctl) <= 1
    /\ \A i \in DOMAIN Ctl :
         /\ Ctl[i].num \in { MsgNum_HANDOFF_COMPLETE, MsgNum_HANDOFF_FAILED }
         /\ Ctl[i].num = MsgNum_HANDOFF_COMPLETE => runErr = "nil"
         /\ Ctl[i].num = MsgNum_HANDOFF_FAILED => runErr \in RunErrors \ {"nil"}
         /\ pc \in {"exec_close", "done"}

HandoffFinal ==
    Ctl # << >> =>
      /\ Ctl' = Ctl
      /\ pc' \notin {"proxy_setup", "proxy_run", "proxy_handoff"}

C3_HandoffExclusiveFinal == [] HandoffInv /\ [][HandoffFinal]_vars

\* a failed run: HANDOFF_FAILED was written and the handler returned
C3_Witness ==
    /\ Len(Ctl) = 1 /\ Ctl[1].num = MsgNum_HANDOFF_FAILED
    /\ pc = "done"

(***************************************************************************)
(* C4.  Every failure of the proxy step after the three streams were       *)
(* accepted (host key algorithms, proxy construction, the proxy run) is    *)
(* reported to the stub by HANDOFF_FAILED on control before the streams    *)
(* are closed, and to the UI.                                              *)
(***************************************************************************)
ProxyFailed ==
    /\ At("call", "proxySSH") # {}
    /\ \/ At("call", "OrderHostKeyAlgs") # {} /\ \E i \in At("call", "OrderHostKeyAlgs") : hist[i].arg = "err"
       \/ \E i \in At("call", "NewProxyConn") : hist[i].arg = "err"
       \/ runErr \in RunErrors \ {"nil"}

C4_ProxyFailureReported ==
    pc = "done" /\ ProxyFailed =>
      /\ \E i \in At("cwrite", MsgNum_HANDOFF_FAILED) :
           \A j \in DOMAIN hist : hist[j].kind = "close" => i < j
      /\ \E i \in DOMAIN hist : hist[i].kind = "inform"

(***************************************************************************)
(* C5.  Handoff offset equation: the next_transport_byte of every          *)
(* HANDOFF_COMPLETE equals bytes_read minus buffered, for all values of    *)
(* the two counters.                                                       *)
(***************************************************************************)
C5_HandoffOffsetEquation ==
    \A i \in DOMAIN Ctl :
      Ctl[i].num = MsgNum_HANDOFF_COMPLETE =>
        Ctl[i].arg.NextTransportByte = WideSub(bytesRead, buffered)

(***************************************************************************)
(* C6.  Denial does not sign: signCredential is called, and a Credential   *)
(* built, only after checkChallenge succeeded and then                     *)
(* policy.RequestCredentialApproval approved; after a challenge failure or *)
(* a policy denial there is no call of signCredential, no Credential and   *)
(* no APPROVED response.                                                   *)
(***************************************************************************)
ChallengeOkAt == { i \in At("call", "checkChallenge") : hist[i].arg.err = "nil" }
ChallengeFailedAt == { i \in At("call", "checkChallenge") : hist[i].arg.err # "nil" }
PolicyOkAt == { i \in At("call", "RequestCredentialApproval") : hist[i].arg = "nil" }
PolicyDeniedAt == { i \in At("call", "RequestCredentialApproval") : hist[i].arg # "nil" }
ApprovedAt ==
    { i \in At("write", MsgNum_CREDENTIAL_RESPONSE) :
        hist[i].arg.resp.Status = CredentialResponse_APPROVED }
DeniedAt ==
    { i \in At("write", MsgNum_CREDENTIAL_RESPONSE) :
        hist[i].arg.resp.Status = CredentialResponse_DENIED }

C6_DenialDoesNotSign ==
    /\ \A s \in At("call", "signCredential") \cup ApprovedAt :
         \E c \in ChallengeOkAt, p \in PolicyOkAt : c < p /\ p < s
    /\ \A a \in ApprovedAt : \E s \in At("call", "signCredential") : s < a
    /\ (pc = "cred_sign" \/ cred # EmptyCredential) =>
         \E c \in ChallengeOkAt, p \in PolicyOkAt : c < p
    /\ (ChallengeFailedAt # {} \/ PolicyDeniedAt # {}) =>
         /\ At("call", "signCredential") = {}
         /\ ApprovedAt = {}
         /\ cred = EmptyCredential
         /\ pc # "cred_sign"

\* a policy denial after a successful challenge check, answered and returned from
C6_Witness ==
    /\ ChallengeOkAt # {}
    /\ PolicyDeniedAt # {}
    /\ DeniedAt # {}
    /\ pc = "read"

(***************************************************************************)
(* C7.  Challenge narrowing: the credential of an APPROVED response holds  *)
(* exactly one server public key, which is the first key of the request,   *)
(* in request order, that known_hosts accepts for the endpoint             *)
(* {scope.client_hostname, scope.client_port}; when no key of the request  *)
(* is accepted the challenge is left as it was and the response is DENIED. *)
(***************************************************************************)
\* the challenge of the request as it was read
Original == hist[1].arg.val.Challenge

Trusted(k) ==
    /\ k # "junk"
    /\ << scope.ClientHostname, scope.ClientPort, k >> \in known_hosts

C7_ChallengeNarrowing ==
    PacketRead /\ hist[1].num = MsgNum_CREDENTIAL_REQUEST =>
      /\ \A a \in ApprovedAt :
           LET narrowed == hist[a].arg.resp.Credential.Challenge
           IN  /\ Len(narrowed) = 1
               /\ \E i \in DOMAIN Original :
                    /\ Original[i] = narrowed[1]
                    /\ Trusted(Original[i])
                    /\ \A j \in 1..(i - 1) : ~Trusted(Original[j])
      /\ (\A i \in DOMAIN Original : ~Trusted(Original[i])) =>
           /\ ApprovedAt = {}
           /\ \A c \in At("call", "checkChallenge") :
                /\ hist[c].arg.challenge = Original
                /\ DeniedAt # {}
           /\ pc \in {"cred_check", "read", "done"}

\* approved with a second trusted key behind the chosen one
C7_Witness ==
    /\ PacketRead /\ hist[1].num = MsgNum_CREDENTIAL_REQUEST
    /\ ApprovedAt # {}
    /\ Len(Original) = 2
    /\ Trusted(Original[1]) /\ Trusted(Original[2])

(***************************************************************************)
(* C8.  Execution denial: when policy.RequestApproval denies, the agent    *)
(* writes exactly one EXECUTION_DENIED carrying the reason, never          *)
(* EXECUTION_APPROVED, starts no multiplexer, accepts no stream, runs no   *)
(* proxy and returns nil; EXECUTION_APPROVED is written only after an      *)
(* approval, so at most one of the two is ever written.                    *)
(***************************************************************************)
ExecDeniedAt == { i \in At("call", "RequestApproval") : hist[i].arg # "nil" }
ExecApprovedAt == { i \in At("call", "RequestApproval") : hist[i].arg = "nil" }

C8_ExecutionDenial ==
    /\ ExecDeniedAt # {} =>
         /\ Cardinality(At("write", MsgNum_EXECUTION_DENIED)) = 1
         /\ \A i \in At("write", MsgNum_EXECUTION_DENIED) :
              \E d \in ExecDeniedAt : d < i /\ hist[i].arg.Reason = hist[d].arg
         /\ At("write", MsgNum_EXECUTION_APPROVED) = {}
         /\ At("call", "yamux.Server") = {} /\ open = {} /\ accepted = 0
         /\ \A i \in DOMAIN hist : hist[i].kind \notin {"accept", "cwrite", "done"}
         /\ At("call", "proxySSH") = {}
         /\ ret = "nil" /\ pc = "done"
    /\ \A i \in At("write", MsgNum_EXECUTION_APPROVED) : \E a \in ExecApprovedAt : a < i
    /\ Cardinality(At("write", MsgNum_EXECUTION_APPROVED)
                   \cup At("write", MsgNum_EXECUTION_DENIED)) <= 1
    /\ Cardinality({ i \in DOMAIN out : out[i].num \in { MsgNum_EXECUTION_APPROVED,
                                                         MsgNum_EXECUTION_DENIED } }) <= 1

\* a denied execution request in S1
C8_Witness ==
    /\ ExecDeniedAt # {}
    /\ At("write", MsgNum_EXECUTION_DENIED) # {}
    /\ scope.ClientHostname # ""
    /\ pc = "done"

(***************************************************************************)
(* C9.  Three-stream discipline: exactly three streams are accepted and    *)
(* bound in accept order to control, ssh_data, transport; the proxy is     *)
(* started only after all three; a failed accept is fatal, with no proxy   *)
(* and no handoff message; and an additional stream opened by the stub     *)
(* terminates the session.                                                 *)
(***************************************************************************)
\* the stub had opened an additional stream when the proxy was called
ExtraStreamBeforeProxy ==
    \E j \in At("call", "proxySSH") : hist[j].arg > NumStreams

C9_ThreeStreamDiscipline ==
    /\ accepted <= NumStreams
    /\ \A i \in DOMAIN hist :
         hist[i].kind = "accept" /\ hist[i].arg # 0 =>
           hist[i].num = StreamName(hist[i].arg)
    /\ At("call", "proxySSH") # {} => accepted = NumStreams
    /\ ret = "err_accept" => At("call", "proxySSH") = {} /\ Ctl = << >>
    /\ ExtraStreamBeforeProxy =>
         /\ At("cwrite", MsgNum_HANDOFF_COMPLETE) = {}
         /\ ~(pc = "done" /\ ret = "nil")

(***************************************************************************)
(* C10.  End of stream at a packet boundary, in S0 or S1, makes            *)
(* HandleConnection return nil and write nothing more; end of stream       *)
(* inside a control packet makes it return a framing error.                *)
(***************************************************************************)
EofInv ==
    hist # << >> /\ hist[1].kind = "read" =>
      /\ hist[1].num = "EOF" =>
           /\ hist[1].arg = 0
           /\ ret = "nil" /\ pc = "done"
           /\ hist = << hist[1] >>
      /\ (hist[1].num = "ErrUnexpectedEOF" \/ (hist[1].num \notin StubMsgNums /\ hist[1].arg > 0)) =>
           /\ ret = "err_read" /\ pc = "done"
           /\ hist = << hist[1] >>

EofWritesNothing ==
    (pc = "read" /\ pc' = "done" /\ hist'[1].num \in {"EOF", "ErrUnexpectedEOF"}) =>
      /\ out' = out
      /\ trace' = trace
      /\ open' = open

SignFailedAt ==
    { i \in At("call", "signCredential") : hist[i].arg \notin {"nil", "panic"} }
InformAt == { i \in DOMAIN hist : hist[i].kind = "inform" }
CredentialFailed == ChallengeFailedAt # {} \/ SignFailedAt # {}
CredPcs == {"cred_check", "cred_policy", "cred_sign"}

FailedRequestInv ==
    CredentialFailed =>
      /\ Cardinality(DeniedAt) = 1
      /\ ApprovedAt = {}
      /\ Cardinality(InformAt) = 1
      /\ \A d \in DeniedAt, i \in InformAt :
           /\ d < i
           /\ \A f \in ChallengeFailedAt \cup SignFailedAt : f < d
      /\ out # << >> /\ out[Len(out)].status = CredentialResponse_DENIED
      /\ pc = "read" /\ ret = "none"
      /\ req = EmptyRequest /\ cred = EmptyCredential

\* the steps of the credential service leave the scope and the protocol state alone
CredKeepsScope ==
    (pc \in CredPcs \/ pc' \in CredPcs) =>
      /\ scope' = scope
      /\ pc' # "panic" => MachineState' = MachineState

\* after the failed request the next step of the connection is a ReadControlPacket
NextPacketAfterFailure ==
    (CredentialFailed /\ hist' # hist) =>
      /\ pc = "read"
      /\ hist'[1].kind = "read"
      /\ Len(trace') \in {Len(trace), Len(trace) + 1}
      /\ scope'.ClientName \in {scope.ClientName} \cup { n.ReadableName : n \in Notices }

C11_FailedCredentialKeepsConnection ==
    /\ [] FailedRequestInv
    /\ [][CredKeepsScope]_vars
    /\ [][NextPacketAfterFailure]_vars

\* a request denied for its challenge, and one denied for a signing failure, in S1
C11_Witness ==
    /\ SignFailedAt # {}
    /\ MachineState = "S1"
    /\ Len(out) = 2 /\ out[1].status = CredentialResponse_DENIED
    /\ Len(trace) = 3 /\ trace[2] = MsgNum_CREDENTIAL_REQUEST

(***************************************************************************)
(* C12.  Policy denial of a credential is not an error: after              *)
(* checkChallenge succeeded and policy.RequestCredentialApproval denied,   *)
(* the one response written is CREDENTIAL_RESPONSE{DENIED} without a       *)
(* credential, and when that write succeeded the handler returned nil:     *)
(* UI.Inform is not called, the connection is back at ReadControlPacket in *)
(* the protocol state it was in.                                           *)
(***************************************************************************)
ResponseAt == At("write", MsgNum_CREDENTIAL_RESPONSE)

PolicyDenialInv ==
    PolicyDeniedAt # {} =>
      /\ \A p \in PolicyDeniedAt : \E c \in ChallengeOkAt : c < p
      /\ Cardinality(ResponseAt) = 1
      /\ \A w \in ResponseAt :
           /\ hist[w].arg.resp.Status = CredentialResponse_DENIED
           /\ hist[w].arg.resp.Credential = EmptyCredential
           /\ \A p \in PolicyDeniedAt : p < w
           /\ hist[w].arg.err = "nil" => InformAt = {}
           /\ hist[w].arg.err # "nil" => hist[Len(hist)] = Ev("inform", "Error handling", hist[w].arg.err)
      /\ pc = "read" /\ ret = "none"

PolicyDenialKeepsState ==
    (pc = "cred_policy" /\ PolicyDeniedAt' # {}) =>
      /\ scope' = scope
      /\ MachineState' = MachineState

C12_PolicyDenialIsNotAnError == [] PolicyDenialInv /\ [][PolicyDenialKeepsState]_vars

\* a policy denial in S1 whose DENIED response was written
C12_Witness ==
    /\ PolicyDeniedAt # {}
    /\ \E w \in ResponseAt : hist[w].arg.err = "nil"
    /\ MachineState = "S1"

(***************************************************************************)
(* C13.  The guard extension query is a pure acknowledgement: an           *)
(* AGENTC_EXTENSION of the guard extension type, in S0 or in S1, is        *)
(* answered with exactly one AGENT_SUCCESS and nothing else; the protocol  *)
(* state, the scope and every other variable of the handler are left as    *)
(* they were and the loop is back at ReadControlPacket, so what follows    *)
(* runs from the same state as without the query.                          *)
(***************************************************************************)
GuardQuery ==
    /\ hist # << >>
    /\ hist[1].kind = "read"
    /\ hist[1].num = MsgNum_AGENTC_EXTENSION
    /\ hist[1].arg.intact
    /\ hist[1].arg.val = AgentGuardExtensionType

GuardQueryInv ==
    GuardQuery =>
      /\ Len(hist) = 2
      /\ hist[2] = Ev("write", MsgNum_AGENT_SUCCESS, NoArg)
      /\ out # << >> /\ out[Len(out)].num = MsgNum_AGENT_SUCCESS
      /\ pc = "read" /\ ret = "none"
      /\ MachineState \in {"S0", "S1"}

GuardQueryStep ==
    (GuardQuery' /\ hist' # hist) =>
      /\ pc = "read"
      /\ UNCHANGED << pc, ret, scope, credVars, execVars, envVars, lastNotice >>
      /\ MachineState' = MachineState
      /\ out' = Append(out, Pkt(MsgNum_AGENT_SUCCESS, ""))
      /\ trace' = Append(trace, MsgNum_AGENTC_EXTENSION)

C13_GuardExtensionAcknowledged == [] GuardQueryInv /\ [][GuardQueryStep]_vars

\* the query acknowledged in S1, with the scope of the notice still in place
C13_Witness ==
    /\ GuardQuery
    /\ MachineState = "S1"
    /\ scope.ClientHostname # ""
    /\ out # << >> /\ out[Len(out)].num = MsgNum_AGENT_SUCCESS

(***************************************************************************)
(* C14.  A scope used for credential signing was populated by a notice of  *)
(* the same connection: whenever signCredential has been called, the       *)
(* connection has unmarshalled an AGENT_FORWARDING_NOTICE before, and the  *)
(* client_hostname and client_port of the scope that checkChallenge used   *)
(* are those of the most recent notice.                                    *)
(***************************************************************************)
NoticeProcessed ==
    /\ lastNotice # NoNotice
    /\ \E i \in DOMAIN trace : trace[i] = MsgNum_AGENT_FORWARDING_NOTICE

ScopeOfLastNotice ==
    /\ scope.ClientHostname = lastNotice.Host
    /\ scope.ClientPort = lastNotice.Port

C14_SigningScopeFromNotice ==
    At("call", "signCredential") # {} => NoticeProcessed /\ ScopeOfLastNotice

(***************************************************************************)
(* C15.  Handoff ordering: HANDOFF_COMPLETE is written on control only     *)
(* after proxy.Run() was started and its done channel delivered nil, and   *)
(* its next_transport_byte is computed from the counters as they stood at  *)
(* that point; once it is written the proxy is not running again, the      *)
(* counters no longer move and the agent does nothing but close, and every *)
(* Close of a stream comes after the handoff message.                      *)
(***************************************************************************)
DoneAt == { i \in DOMAIN hist : hist[i].kind = "done" }
CloseAt == { i \in DOMAIN hist : hist[i].kind = "close" }
CompleteAt == At("cwrite", MsgNum_HANDOFF_COMPLETE)

HandoffOrderInv ==
    /\ \A c \in CompleteAt :
         /\ \E r \in At("call", "proxy.Run"), d \in DoneAt :
              /\ r < d /\ d < c
              /\ hist[d].num = "nil"
              /\ hist[c].arg.NextTransportByte =
                   NextTransportByte(hist[d].arg.bytesRead, hist[d].arg.buffered)
              /\ bytesRead = hist[d].arg.bytesRead
              /\ buffered = hist[d].arg.buffered
         /\ \A j \in DOMAIN hist : j > c => hist[j].kind = "close"
         /\ pc \in {"exec_close", "done"}
         /\ pc = "done" =>
              \A s \in 1..NumStreams : \E j \in At("close", StreamName(s)) : c < j
    /\ At("call", "proxy.Run") # {} =>
         \A j \in CloseAt : \E c \in DOMAIN hist : hist[c].kind = "cwrite" /\ c < j

HandoffQuiet ==
    CompleteAt # {} =>
      /\ bytesRead' = bytesRead /\ buffered' = buffered
      /\ pc' \notin {"proxy_setup", "proxy_run", "proxy_handoff"}
      /\ CompleteAt' = CompleteAt

EmptySignerListCase ==
    /\ signers = << >>
    /\ ChallengeOkAt # {} /\ PolicyOkAt # {}
    /\ At("call", "signCredential") # {}

C16_EmptySignerListReported ==
    EmptySignerListCase =>
      /\ InformAt # {}
      /\ ApprovedAt = {}
      /\ pc # "panic" /\ ret # "panic"

(***************************************************************************)
(* C17.  Session resources are released on every exit path of              *)
(* handleExecutionRequest once the multiplexer exists: when the handler    *)
(* has returned, after a failed Accept of control, sshData or transport,   *)
(* after an error of proxySSH or after its success, every stream that was  *)
(* accepted has been closed after its Accept, the multiplexer session has  *)
(* been closed after the streams, and nothing is left open.                *)
(***************************************************************************)
MuxStarted == \E i \in At("call", "yamux.Server") : hist[i].arg = "nil"
AcceptedAt == { i \in DOMAIN hist : hist[i].kind = "accept" /\ hist[i].arg # 0 }

ReleasedInv ==
    (pc = "done" /\ MuxStarted) =>
      /\ open = {}
      /\ Cardinality(AcceptedAt) = accepted
      /\ \A a \in AcceptedAt : \E c \in At("close", hist[a].num) : a < c
      /\ \E m \in At("close", "ymux") :
           /\ \A i \in DOMAIN hist : i <= m
           /\ \A a \in AcceptedAt : \E c \in At("close", hist[a].num) : c < m
      /\ ret \in {"err_accept", "err_proxy", "nil"}

\* while the handler runs, what is open is the session and the accepted streams
HeldInv ==
    (Executing /\ MuxStarted) =>
      open = {"ymux"} \cup { StreamName(i) : i \in 1..accepted }

C17_ResourcesReleased == ReleasedInv /\ HeldInv

\* the Accept of transport failed with control and sshData accepted
C17_Witness ==
    /\ pc = "done" /\ MuxStarted
    /\ ret = "err_accept"
    /\ accepted = 2
    /\ At("close", "sshData") # {} /\ At("close", "ymux") # {}

(***************************************************************************)
(* C18.  Within one connection the control messages are handled in receive *)
(* order and one at a time: a packet is read only when every earlier       *)
(* packet that calls for a reply has its reply written, so the replies     *)
(* stand on the connection in the order of the requests, each of the kind  *)
(* its request calls for; while a credential request is being handled no   *)
(* other packet is read and each of its stages runs at most once and in    *)
(* order; and a concurrent connection writes only its own scope, this      *)
(* connection's scope changing only at its own reads.                      *)
(***************************************************************************)
ReplyKinds(m) ==
    CASE m = MsgNum_AGENTC_EXTENSION -> { MsgNum_AGENT_SUCCESS, MsgNum_AGENT_FAILURE }
      [] m = MsgNum_CREDENTIAL_REQUEST -> { MsgNum_CREDENTIAL_RESPONSE }
      [] m = MsgNum_EXECUTION_REQUEST -> { MsgNum_EXECUTION_APPROVED, MsgNum_EXECUTION_DENIED }
      [] m = MsgNum_AGENT_FORWARDING_NOTICE -> {}
      [] OTHER -> { MsgNum_AGENT_FAILURE }

\* the packets read so far that call for a reply
Requests == SelectSeq(trace, LAMBDA m : ReplyKinds(m) # {})

InOrderInv ==
    /\ Len(out) \in { Len(Requests) - 1, Len(Requests) }
    /\ \A i \in DOMAIN out : out[i].num \in ReplyKinds(Requests[i])
    /\ pc = "read" => Len(out) = Len(Requests)
    /\ \A i \in 1..(Len(Requests) - 1) :
         Requests[i] \in { MsgNum_AGENTC_EXTENSION, MsgNum_CREDENTIAL_REQUEST }
    /\ Cardinality(At("call", "checkChallenge")) <= 1
    /\ Cardinality(At("call", "RequestCredentialApproval")) <= 1
    /\ Cardinality(At("call", "signCredential")) <= 1
    /\ Cardinality(ResponseAt) <= 1
    /\ \A c \in At("call", "checkChallenge"), p \in At("call", "RequestCredentialApproval") : c < p
    /\ \A p \in At("call", "RequestCredentialApproval"), g \in At("call", "signCredential") : p < g
    /\ \A g \in At("call", "signCredential"), w \in ResponseAt : g < w

OneAtATime ==
    /\ trace' # trace =>
         /\ pc = "read"
         /\ Len(out) = Len(Requests)
         /\ req = EmptyRequest /\ cred = EmptyCredential
         /\ Len(trace') = Len(trace) + 1
    /\ pc \in CredPcs => trace' = trace /\ scope' = scope

OwnScope ==
    /\ scope' # scope => trace' # trace /\ peerScope' = peerScope
    /\ peerScope' # peerScope =>
         UNCHANGED << pc, ret, scope, trace, out, hist, credVars, execVars, envVars, lastNotice >>

C18_InOrderOneAtATime ==
    /\ [] InOrderInv
    /\ [][OneAtATime]_vars
    /\ [][OwnScope]_vars

\* two credential requests answered in turn while the other connection got its notice
C18_Witness ==
    /\ trace = << MsgNum_AGENT_FORWARDING_NOTICE, MsgNum_CREDENTIAL_REQUEST,
                  MsgNum_CREDENTIAL_REQUEST >>
    /\ Len(out) = 2
    /\ out[1].status = CredentialResponse_DENIED
    /\ out[2].status = CredentialResponse_APPROVED
    /\ peerScope.ClientHostname \notin { "", scope.ClientHostname }

(***************************************************************************)
(* C19.  Exactly one credential response per request: once the handling of *)
(* a CREDENTIAL_REQUEST that unmarshalled is over, exactly one             *)
(* CREDENTIAL_RESPONSE has been written for it, never none and never two.  *)
(***************************************************************************)
CredentialRequestHandled ==
    /\ hist # << >>
    /\ hist[1].kind = "read"
    /\ hist[1].num = MsgNum_CREDENTIAL_REQUEST
    /\ hist[1].arg.intact
    /\ pc \notin CredPcs

C19_ExactlyOneResponse ==
    CredentialRequestHandled => Cardinality(ResponseAt) = 1

(***************************************************************************)
(* C20.  Signed content of a credential: for every APPROVED response the   *)
(* bytes handed to the signer are the serialization of the credential with *)
(* the op of the request, the challenge as checkChallenge narrowed it, a   *)
(* 32-byte signer_nonce and the public key of the first signer, signature  *)
(* and signature_format unset; the issued credential carries the signature *)
(* of that signer over those bytes and differs from the signed content in  *)
(* these two fields only, so clearing them and serializing it gives the    *)
(* signed bytes again.                                                     *)
(***************************************************************************)
SignedAt == At("signed", "bytes_to_sign")
ClearSignature(c) == [c EXCEPT !.Signature = NoSignature, !.SignatureFormat = ""]

\* the credential the claim describes, before it is signed
SignedContent(c) ==
    [EmptyCredential EXCEPT !.Op = hist[1].arg.val.Op,
                            !.Challenge = hist[CHOOSE i \in ChallengeOkAt : TRUE].arg.challenge,
                            !.SignerNonce = c.SignerNonce,
                            !.SignatureKey = PublicKey(signers[1])]

C20_SignedContent ==
    \A a \in ApprovedAt :
      LET issued == hist[a].arg.resp.Credential
      IN  /\ Cardinality(SignedAt) = 1
          /\ ChallengeOkAt # {}
          /\ \A g \in SignedAt :
               /\ g < a
               /\ Len(hist[g].arg) = Len(Marshal(ClearSignature(issued)))
               /\ hist[g].arg = Marshal(ClearSignature(issued))
               /\ hist[g].arg = Marshal(SignedContent(issued))
               /\ issued.Signature = Sign(signers[1], hist[g].arg).Blob
               /\ issued.SignatureFormat = Sign(signers[1], hist[g].arg).Format
          /\ ClearSignature(issued) = SignedContent(issued)
          /\ issued.SignerNonce.len = NonceLen
          /\ issued.SignerNonce.bytes \in Nonces
          /\ issued.Signature # NoSignature /\ issued.SignatureFormat # ""

\* an approval whose challenge was narrowed from two keys to one
C20_Witness ==
    /\ ApprovedAt # {}
    /\ Len(hist[1].arg.val.Challenge) = 2
    /\ \A a \in ApprovedAt : Len(hist[a].arg.resp.Credential.Challenge) = 1

=============================================================================
